---- MODULE Spec2Model ----
(***************************************************************************)
(* Model of the localhost-tunnel relay server (src/tunnel-relay.js).       *)
(*                                                                         *)
(* The relay is a single Node.js process: every handler below runs to      *)
(* completion on the event loop, so each handler is one atomic action.     *)
(*                                                                         *)
(* Strings whose characters the code inspects (identifiers, request ids,   *)
(* Host headers) are sequences of one-character strings.                   *)
(*                                                                         *)
(* ws.send() on a socket that is not OPEN drops the message (ws >= 7).     *)
(*                                                                         *)
(* `out` holds what the handler that ran last emitted: the messages it     *)
(* sent on connections and the warnings and errors it logged.              *)
(***************************************************************************)
EXTENDS Integers, Sequences, FiniteSets, TLC

(***************************************************************************)
(* Bounds of the model.                                                    *)
(***************************************************************************)
\* WebSocket connections the relay accepts.
NumChannels == 2
\* Public HTTP requests the relay receives.
NumRequests == 2
\* Distinct values crypto.randomBytes is allowed to return.
NumSubdomains == 2
\* init messages the relay handles, over all connections.
MaxInits == 2

Channels == 1..NumChannels
Requests == 1..NumRequests

(***************************************************************************)
(* Program constants.                                                      *)
(***************************************************************************)
\* crypto.randomBytes(6)
RandomByteCount == 6
\* msg.localPort || 3000
DefaultLocalPort == 3000

(***************************************************************************)
(* Strings.                                                                *)
(***************************************************************************)
Str1 == <<"0", "1", "2", "3", "4", "5", "6", "7", "8", "9">>

\* String.prototype.startsWith
StartsWith(s, p) ==
    /\ Len(p) <= Len(s)
    /\ SubSeq(s, 1, Len(p)) = p

\* s.split(c)[0]: the part of s before the first c (all of s without one).
SplitFirst(s, c) ==
    IF \E i \in 1..Len(s) : s[i] = c
    THEN LET i == CHOOSE i \in 1..Len(s) :
                      /\ s[i] = c
                      /\ \A j \in 1..(i - 1) : s[j] # c
         IN  SubSeq(s, 1, i - 1)
    ELSE s

\* host.split('.')[0].split(':')[0]
HostLabel(host) == SplitFirst(SplitFirst(host, "."), ":")

\* Hex digits crypto.randomBytes(..).toString('hex') is allowed to repeat.
HexDigit == <<"1", "a", "7", "f", "0", "c">>

\* The values generateSubdomain() can return in the model: 2 * 6 hex digits.
SubdomainPool ==
    { [i \in 1..(2 * RandomByteCount) |-> HexDigit[k]] : k \in 1..NumSubdomains }

\* ws._socket.remoteAddress of the accepted connections: an IPv4 peer, an
\* IPv6 peer, and so on in turn.
Addresses ==
    << <<"1", "2", "7", ".", "0", ".", "0", ".", "1">>,
       <<":", ":", "1">> >>

remoteAddress(ch) == Addresses[((ch - 1) % Len(Addresses)) + 1]

Null == <<>>

\* `${remoteAddress}-${Date.now()}-${Math.random()}`: the timestamp/random
\* pair is a stamp no two requests share; request r gets stamp r.
MakeRequestId(addr, r) == addr \o <<"-">> \o <<Str1[r + 1]>>

\* Host headers of public requests.
HostPool ==
    { s \o <<".", "t", ":", "8">> : s \in SubdomainPool }
    \cup { s \o <<":", "8">> : s \in SubdomainPool }
    \cup { <<"z", "z", "z", "z", "z", "z", ".", "t">> }

UrlPool == { "/", "/_health" }

(***************************************************************************)
(* State.                                                                  *)
(***************************************************************************)
VARIABLES
    readyState,        \* ws.readyState per connection ("NONE": not accepted yet)
    subdomain,         \* the connection closure's `subdomain`
    pingInterval,      \* the connection closure's `pingInterval` (0: null)
    intervals,         \* armed setInterval handles <<ch, k>>
    tunnels,           \* Map subdomain -> { ws, localPort }
    pendingResponses,  \* Map requestId -> { res, timer }
    timers,            \* armed setTimeout handles (one per request)
    req,               \* per public request: closure of forwardRequest
    res,               \* per public request: the http.ServerResponse
    out                \* what the last handler sent and logged

vars == << readyState, subdomain, pingInterval, intervals, tunnels,
           pendingResponses, timers, req, res, out >>

(***************************************************************************)
(* State of the client (tunnel-client.js).  The relay handlers leave it    *)
(* alone and the client handlers leave the relay's state alone.            *)
(***************************************************************************)
\* connect() calls of one run.
MaxConnects == 7
\* `request` messages the client receives in one run.
MaxClientRequests == 2

ClientRequestIds == 1..MaxClientRequests

\* The literal 1000 of reconnect().
BaseDelay == 1000
MAX_RECONNECT_DELAY == 30000

VARIABLES
    sockets,            \* readyState of every WebSocket made by connect()
    ws,                 \* the global `ws`: index into sockets (0: undefined)
    reconnectAttempts,  \* the global `reconnectAttempts`
    timeouts,           \* armed setTimeout(connect, delay): their delays
    forward,            \* per request id: state of handleRequest's await
    cOut,               \* what the last client handler sent and logged
    crashed,            \* the process ended on an unhandled rejection
    failures            \* closes since the last `ready` (or since the start)

cvars == << sockets, ws, reconnectAttempts, timeouts, forward, cOut, crashed,
            failures >>

\* The module body and the connect() call on its last line.
ClientInit ==
    /\ sockets = << "CONNECTING" >>
    /\ ws = 1
    /\ reconnectAttempts = 0
    /\ timeouts = << >>
    /\ forward = [id \in ClientRequestIds |-> "idle"]
    /\ cOut = {}
    /\ crashed = FALSE
    /\ failures = 0

FreshRes ==
    [ headersSent |-> FALSE, statusCode |-> 0, headers |-> "", body |-> "",
      finished |-> FALSE, calls |-> 0, by |-> "none" ]

FreshReq == [ phase |-> "new", ws |-> 0, requestId |-> Null ]

Init ==
    /\ readyState = [ch \in Channels |-> "NONE"]
    /\ subdomain = [ch \in Channels |-> Null]
    /\ pingInterval = [ch \in Channels |-> 0]
    /\ intervals = {}
    /\ tunnels = << >>
    /\ pendingResponses = << >>
    /\ timers = {}
    /\ req = [r \in Requests |-> FreshReq]
    /\ res = [r \in Requests |-> FreshRes]
    /\ out = {}
    /\ ClientInit

(***************************************************************************)
(* Helpers for Map and for the HTTP response object.                       *)
(***************************************************************************)
MapSet(m, k, v) == [x \in DOMAIN m \cup {k} |-> IF x = k THEN v ELSE m[x]]

MapDelete(m, ks) == [x \in DOMAIN m \ ks |-> m[x]]

\* http.ServerResponse.writeHead throws on a status outside 100..999.
ValidStatus(status) == status >= 100 /\ status <= 999

\* res.writeHead(status, headers) throws when the headers were already sent
\* or the status code is invalid; nothing is written then.
WriteHeadThrows(rs, status) == rs.headersSent \/ ~ValidStatus(status)

\* res.writeHead(status, headers); res.end(body), with `by` naming the caller.
\* `calls` counts the invocations of writeHead, throwing ones included.
WriteResponse(rs, status, headers, body, by) ==
    IF WriteHeadThrows(rs, status)
    THEN [rs EXCEPT !.calls = @ + 1]
    ELSE [ headersSent |-> TRUE, statusCode |-> status, headers |-> headers,
           body |-> body, finished |-> TRUE, calls |-> rs.calls + 1, by |-> by ]

\* ws.send(message): what reaches the wire.
WsSend(ch, message) ==
    IF readyState[ch] = "OPEN"
    THEN { [kind |-> "send", ch |-> ch, message |-> message] }
    ELSE {}

\* ws.close()
WsClose(ch) ==
    IF readyState[ch] = "OPEN"
    THEN [readyState EXCEPT ![ch] = "CLOSING"]
    ELSE readyState

\* console.warn / console.error
Log(level, what) == { [kind |-> level, what |-> what] }

(***************************************************************************)
(* wss.on('connection')                                                    *)
(***************************************************************************)
Connection(ch) ==
    /\ readyState[ch] = "NONE"
    /\ UNCHANGED cvars
    /\ \A c \in Channels : c < ch => readyState[c] # "NONE"
    /\ readyState' = [readyState EXCEPT ![ch] = "OPEN"]
    /\ subdomain' = [subdomain EXCEPT ![ch] = Null]
    /\ pingInterval' = [pingInterval EXCEPT ![ch] = 0]
    /\ out' = {}
    /\ UNCHANGED << intervals, tunnels, pendingResponses, timers, req, res >>

(***************************************************************************)
(* Frames a client can put on a connection.  JSON.parse(data) throws on a  *)
(* frame that is not JSON ("invalid"); the JSON text `null` parses, and    *)
(* reading msg.type of it throws a TypeError ("null").                     *)
(***************************************************************************)
KnownIds ==
    { req[r].requestId : r \in { x \in Requests : req[x].requestId # Null } }

StatusPool == { 200, 0 }
HeadersPool == { "h1" }
BodyPool == { "b1" }
LocalPortPool == { 8080 }

FramePool ==
    { [json |-> "invalid"], [json |-> "null"],
      [json |-> "object", type |-> "pong"],
      [json |-> "object", type |-> "status"] }
    \cup { [json |-> "object", type |-> "init", localPort |-> p] :
             p \in LocalPortPool }
    \cup { [json |-> "object", type |-> "response", id |-> i, status |-> s,
            headers |-> h, body |-> b] :
             i \in KnownIds, s \in StatusPool,
             h \in HeadersPool, b \in BodyPool }

IsType(frame, type) == frame.json = "object" /\ frame.type = type

\* setInterval calls made so far (each init makes one).
RECURSIVE SumTo(_, _)
SumTo(f, n) == IF n = 0 THEN 0 ELSE f[n] + SumTo(f, n - 1)

InitCount == SumTo(pingInterval, NumChannels)

(***************************************************************************)
(* generateSubdomain: any value of the pool, registered or not.            *)
(***************************************************************************)
generateSubdomain == SubdomainPool

(***************************************************************************)
(* handleInit(ws, msg)                                                     *)
(***************************************************************************)
handleInit(ch, msg) ==
    \E sub \in generateSubdomain :
        LET k == pingInterval[ch] + 1 IN
        /\ subdomain' = [subdomain EXCEPT ![ch] = sub]
        /\ tunnels' = MapSet(tunnels, sub,
              [ ws |-> ch,
                localPort |-> IF msg.localPort = 0 THEN DefaultLocalPort
                              ELSE msg.localPort ])
        /\ out' = WsSend(ch, [type |-> "ready", subdomain |-> sub])
        /\ pingInterval' = [pingInterval EXCEPT ![ch] = k]
        /\ intervals' = intervals \cup {<<ch, k>>}

(***************************************************************************)
(* handleResponse(msg)                                                     *)
(***************************************************************************)
handleResponseThrows(msg) ==
    /\ msg.id \in DOMAIN pendingResponses
    /\ WriteHeadThrows(res[pendingResponses[msg.id].res], msg.status)

\* handleResponse without pendingResponses.delete(id).
handleResponse_KeepsEntry(msg) ==
    IF msg.id \notin DOMAIN pendingResponses
    THEN /\ out' = Log("warn", msg.id)
         /\ UNCHANGED << pendingResponses, timers, res >>
    ELSE LET pending == pendingResponses[msg.id] IN
         /\ timers' = timers \ {pending.timer}
         /\ UNCHANGED pendingResponses
         /\ res' = [res EXCEPT ![pending.res] =
                       WriteResponse(@, msg.status, msg.headers, msg.body,
                                     "response")]
         /\ out' = IF handleResponseThrows(msg)
                   THEN Log("error", "Protocol error") ELSE {}

\* handleResponse without clearTimeout(pending.timer).
handleResponse_KeepsTimer(msg) ==
    IF msg.id \notin DOMAIN pendingResponses
    THEN /\ out' = Log("warn", msg.id)
         /\ UNCHANGED << pendingResponses, timers, res >>
    ELSE LET pending == pendingResponses[msg.id] IN
         /\ UNCHANGED timers
         /\ pendingResponses' = MapDelete(pendingResponses, {msg.id})
         /\ res' = [res EXCEPT ![pending.res] =
                       WriteResponse(@, msg.status, msg.headers, msg.body,
                                     "response")]
         /\ out' = IF handleResponseThrows(msg)
                   THEN Log("error", "Protocol error") ELSE {}

\* handleResponse completing the oldest pending entry instead of msg.id's.
handleResponse_Oldest(msg) ==
    IF msg.id \notin DOMAIN pendingResponses
    THEN /\ out' = Log("warn", msg.id)
         /\ UNCHANGED << pendingResponses, timers, res >>
    ELSE LET id == CHOOSE i \in DOMAIN pendingResponses :
                       \A j \in DOMAIN pendingResponses :
                           pendingResponses[i].res <= pendingResponses[j].res
             pending == pendingResponses[id] IN
         /\ timers' = timers \ {pending.timer}
         /\ pendingResponses' = MapDelete(pendingResponses, {id})
         /\ res' = [res EXCEPT ![pending.res] =
                       WriteResponse(@, msg.status, msg.headers, msg.body,
                                     "response")]
         /\ out' = IF handleResponseThrows(msg)
                   THEN Log("error", "Protocol error") ELSE {}

handleResponse(msg) ==
    IF msg.id \notin DOMAIN pendingResponses
    THEN /\ out' = Log("warn", msg.id)
         /\ UNCHANGED << pendingResponses, timers, res >>
    ELSE LET pending == pendingResponses[msg.id] IN
         /\ timers' = timers \ {pending.timer}
         /\ pendingResponses' = MapDelete(pendingResponses, {msg.id})
         /\ res' = [res EXCEPT ![pending.res] =
                       WriteResponse(@, msg.status, msg.headers, msg.body,
                                     "response")]
         /\ out' = IF handleResponseThrows(msg)
                   THEN Log("error", "Protocol error") ELSE {}

(***************************************************************************)
(* ws.on('message'): the try block and its catch.                          *)
(***************************************************************************)
MessageThrows(frame) ==
    \/ frame.json \in {"invalid", "null"}
    \/ IsType(frame, "response") /\ handleResponseThrows(frame)

OnMessage(ch, frame) ==
    /\ readyState[ch] \in {"OPEN", "CLOSING"}
    /\ UNCHANGED cvars
    /\ IsType(frame, "init") => InitCount < MaxInits
    /\ readyState' = IF MessageThrows(frame) THEN WsClose(ch) ELSE readyState
    /\ IF IsType(frame, "init")
       THEN /\ handleInit(ch, frame)
            /\ UNCHANGED << pendingResponses, timers, res >>
       ELSE IF IsType(frame, "response")
       THEN /\ handleResponse(frame)
            /\ UNCHANGED << subdomain, pingInterval, intervals, tunnels >>
       ELSE /\ out' = IF MessageThrows(frame)
                      THEN Log("error", "Protocol error") ELSE {}
            /\ UNCHANGED << subdomain, pingInterval, intervals, tunnels,
                            pendingResponses, timers, res >>
    /\ UNCHANGED req

(***************************************************************************)
(* ws.on('close')                                                          *)
(***************************************************************************)
\* The pending entries the close handler fails for `sub`.
Attributed(sub) ==
    { id \in DOMAIN pendingResponses : StartsWith(id, sub) }

OnClose(ch) ==
    /\ readyState[ch] \in {"OPEN", "CLOSING"}
    /\ UNCHANGED cvars
    /\ readyState' = [readyState EXCEPT ![ch] = "CLOSED"]
    /\ IF subdomain[ch] # Null
       THEN /\ tunnels' = MapDelete(tunnels, {subdomain[ch]})
            /\ res' = [r \in Requests |->
                  IF \E id \in Attributed(subdomain[ch]) :
                        pendingResponses[id].res = r
                  THEN WriteResponse(res[r], 502, "text/plain",
                                     "Tunnel disconnected", "close")
                  ELSE res[r]]
            /\ pendingResponses' =
                  MapDelete(pendingResponses, Attributed(subdomain[ch]))
       ELSE UNCHANGED << tunnels, res, pendingResponses >>
    /\ intervals' = IF pingInterval[ch] # 0
                    THEN intervals \ {<<ch, pingInterval[ch]>>}
                    ELSE intervals
    /\ out' = {}
    /\ UNCHANGED << subdomain, pingInterval, timers, req >>

(***************************************************************************)
(* The keepalive callback of setInterval.                                  *)
(***************************************************************************)
OnPingInterval(ch, k) ==
    /\ <<ch, k>> \in intervals
    /\ UNCHANGED cvars
    /\ out' = WsSend(ch, [type |-> "ping"])
    /\ UNCHANGED << readyState, subdomain, pingInterval, intervals, tunnels,
                    pendingResponses, timers, req, res >>

(***************************************************************************)
(* http.createServer handler and forwardRequest up to req.on('end').       *)
(***************************************************************************)
\* forwardRequest without the readyState check.
forwardRequest_NoStateCheck(tunnel, r) ==
    /\ req' = [req EXCEPT ![r] =
           [ phase |-> "reading", ws |-> tunnel.ws,
             requestId |-> MakeRequestId(remoteAddress(tunnel.ws), r) ]]
    /\ UNCHANGED res

forwardRequest(tunnel, r) ==
    IF readyState[tunnel.ws] # "OPEN"
    THEN /\ res' = [res EXCEPT ![r] =
                WriteResponse(@, 503, "text/plain", "Tunnel unavailable",
                              "unavailable")]
         /\ req' = [req EXCEPT ![r].phase = "answered"]
    ELSE /\ req' = [req EXCEPT ![r] =
                [ phase |-> "reading", ws |-> tunnel.ws,
                  requestId |-> MakeRequestId(remoteAddress(tunnel.ws), r) ]]
         /\ UNCHANGED res

OnHttpRequest(r, host, url) ==
    /\ req[r].phase = "new"
    /\ UNCHANGED cvars
    /\ \A x \in Requests : x < r => req[x].phase # "new"
    /\ LET label == HostLabel(host) IN
       IF url = "/_health"
       THEN /\ res' = [res EXCEPT ![r] =
                   WriteResponse(@, 200, "application/json",
                       << "ok", Cardinality(DOMAIN tunnels),
                          Cardinality(DOMAIN pendingResponses) >>, "health")]
            /\ req' = [req EXCEPT ![r].phase = "answered"]
       ELSE IF label \notin DOMAIN tunnels
       THEN /\ res' = [res EXCEPT ![r] =
                   WriteResponse(@, 404, "text/plain",
                       << "Tunnel not found", label,
                          Cardinality(DOMAIN tunnels) >>, "notfound")]
            /\ req' = [req EXCEPT ![r].phase = "answered"]
       ELSE forwardRequest(tunnels[label], r)
    /\ out' = {}
    /\ UNCHANGED << readyState, subdomain, pingInterval, intervals, tunnels,
                    pendingResponses, timers >>

(***************************************************************************)
(* req.on('end') of forwardRequest.                                        *)
(***************************************************************************)
OnRequestEnd(r) ==
    /\ req[r].phase = "reading"
    /\ UNCHANGED cvars
    /\ out' = WsSend(req[r].ws, [type |-> "request", id |-> req[r].requestId])
    /\ timers' = timers \cup {r}
    /\ pendingResponses' = MapSet(pendingResponses, req[r].requestId,
                                  [res |-> r, timer |-> r])
    /\ req' = [req EXCEPT ![r].phase = "forwarded"]
    /\ UNCHANGED << readyState, subdomain, pingInterval, intervals, tunnels,
                    res >>

(***************************************************************************)
(* The setTimeout callback of forwardRequest (REQUEST_TIMEOUT).            *)
(***************************************************************************)
\* The timeout callback without pendingResponses.delete(requestId).
OnTimeout_KeepsEntry(r) ==
    /\ r \in timers
    /\ UNCHANGED cvars
    /\ timers' = timers \ {r}
    /\ UNCHANGED pendingResponses
    /\ res' = IF ~res[r].headersSent
              THEN [res EXCEPT ![r] =
                       WriteResponse(@, 504, "text/plain", "Gateway Timeout",
                                     "timeout")]
              ELSE res
    /\ out' = {}
    /\ UNCHANGED << readyState, subdomain, pingInterval, intervals, tunnels,
                    req >>

OnTimeout(r) ==
    /\ r \in timers
    /\ UNCHANGED cvars
    /\ timers' = timers \ {r}
    /\ pendingResponses' = MapDelete(pendingResponses, {req[r].requestId})
    /\ res' = IF ~res[r].headersSent
              THEN [res EXCEPT ![r] =
                       WriteResponse(@, 504, "text/plain", "Gateway Timeout",
                                     "timeout")]
              ELSE res
    /\ out' = {}
    /\ UNCHANGED << readyState, subdomain, pingInterval, intervals, tunnels,
                    req >>

(***************************************************************************)
(* The relay.                                                              *)
(***************************************************************************)
Next ==
    \/ \E ch \in Channels : Connection(ch)
    \/ \E ch \in Channels : \E frame \in FramePool : OnMessage(ch, frame)
    \/ \E ch \in Channels : OnClose(ch)
    \/ \E ch \in Channels : \E k \in 1..MaxInits : OnPingInterval(ch, k)
    \/ \E r \in Requests : \E host \in HostPool : \E url \in UrlPool :
          OnHttpRequest(r, host, url)
    \/ \E r \in Requests : OnRequestEnd(r)
    \/ \E r \in Requests : OnTimeout(r)

Spec == Init /\ [][Next]_<< vars, cvars >>

\* Node fires every armed timer: the deadline of a request is never starved.
FairSpec == Spec /\ \A r \in Requests : WF_vars(OnTimeout(r))

(***************************************************************************)
(* The client.  Every handler runs to completion on Node's event loop;     *)
(* handleRequest is two steps, split at its await.                         *)
(***************************************************************************)
\* ws.send(message) of the client: throws while the socket is CONNECTING,
\* drops the message when it is CLOSING or CLOSED.
ClientSendThrows(s) == sockets[s] = "CONNECTING"

ClientSend(s, message) ==
    IF sockets[s] = "OPEN"
    THEN { [kind |-> "send", ch |-> s, message |-> message] }
    ELSE {}

RECURSIVE Pow2(_)
Pow2(n) == IF n = 0 THEN 1 ELSE 2 * Pow2(n - 1)

Min(a, b) == IF a <= b THEN a ELSE b

\* The delay reconnect() computes from the counter.
ReconnectDelay(attempts) ==
    Min(BaseDelay * Pow2(attempts), MAX_RECONNECT_DELAY)

\* ws.on('open')
ClientOnOpen(s) ==
    /\ ~crashed
    /\ s \in DOMAIN sockets
    /\ sockets[s] = "CONNECTING"
    /\ sockets' = [sockets EXCEPT ![s] = "OPEN"]
    /\ reconnectAttempts' = 0
    /\ cOut' = Log("log", "Connected to relay server")
               \cup { [kind |-> "send", ch |-> ws,
                       message |-> [type |-> "init",
                                    localPort |-> DefaultLocalPort]] }
    /\ UNCHANGED << ws, timeouts, forward, crashed, failures >>
    /\ UNCHANGED vars

\* The messages the relay sends to a client.
ClientMessagePool ==
    { [type |-> "ready"], [type |-> "ping"] }
        \cup { [type |-> "request", id |-> id] : id \in ClientRequestIds }

\* ws.on('message') up to the await of handleRequest.
ClientOnMessage(s, msg) ==
    /\ ~crashed
    /\ s \in DOMAIN sockets
    /\ sockets[s] = "OPEN"
    /\ msg.type = "request" => forward[msg.id] = "idle"
    /\ forward' = IF msg.type = "request"
                  THEN [forward EXCEPT ![msg.id] = "inflight"]
                  ELSE forward
    /\ cOut' = CASE msg.type = "ready" -> Log("log", "Tunnel established")
                 [] msg.type = "request" -> Log("log", "request")
                 [] msg.type = "ping" -> ClientSend(ws, [type |-> "pong"])
    /\ failures' = IF msg.type = "ready" THEN 0 ELSE failures
    /\ UNCHANGED << sockets, ws, reconnectAttempts, timeouts, crashed >>
    /\ UNCHANGED vars

\* The `response` message handleRequest builds for a settled local forward.
ResponseMessage(id, ok) ==
    [type |-> "response", id |-> id, status |-> IF ok THEN 200 ELSE 502]

\* handleRequest after the await: forwardToLocalhost resolved (ok) or
\* rejected.  A send that throws in the try block is sent again by the catch
\* block, where it throws again and rejects the handler's promise; Node ends
\* the process on the unhandled rejection or only warns, by its version.
ForwardSettled(id, ok) ==
    /\ ~crashed
    /\ forward[id] = "inflight"
    /\ forward' = [forward EXCEPT ![id] = "settled"]
    /\ IF ClientSendThrows(ws)
       THEN /\ cOut' = Log("error", "unhandledRejection")
            /\ crashed' \in BOOLEAN
       ELSE /\ cOut' = ClientSend(ws, ResponseMessage(id, ok))
            /\ UNCHANGED crashed
    /\ UNCHANGED << sockets, ws, reconnectAttempts, timeouts, failures >>
    /\ UNCHANGED vars

\* reconnect()
reconnect ==
    /\ timeouts' = Append(timeouts, ReconnectDelay(reconnectAttempts))
    /\ reconnectAttempts' = reconnectAttempts + 1

\* An 'error' handler that also schedules a reconnect.
ClientOnError_Reconnects(s) ==
    /\ ~crashed
    /\ s \in DOMAIN sockets
    /\ sockets[s] \in {"CONNECTING", "OPEN"}
    /\ Len(sockets) < MaxConnects
    /\ sockets' = [sockets EXCEPT ![s] = "CLOSING"]
    /\ cOut' = Log("error", "Connection error")
    /\ reconnect
    /\ UNCHANGED << ws, forward, crashed, failures >>
    /\ UNCHANGED vars

\* ws.on('error'): the socket failed (refused connection, protocol error);
\* its 'close' event follows.
ClientOnError(s) ==
    /\ ~crashed
    /\ s \in DOMAIN sockets
    /\ sockets[s] \in {"CONNECTING", "OPEN"}
    /\ Len(sockets) < MaxConnects
    /\ sockets' = [sockets EXCEPT ![s] = "CLOSING"]
    /\ cOut' = Log("error", "Connection error")
    /\ UNCHANGED << ws, reconnectAttempts, timeouts, forward, crashed,
                    failures >>
    /\ UNCHANGED vars

\* ws.on('close'): the peer closed an open socket, or a failed one is done.
ClientOnClose(s) ==
    /\ ~crashed
    /\ s \in DOMAIN sockets
    /\ sockets[s] \in {"OPEN", "CLOSING"}
    /\ Len(sockets) < MaxConnects
    /\ sockets' = [sockets EXCEPT ![s] = "CLOSED"]
    /\ cOut' = Log("log", "Disconnected from relay")
    /\ reconnect
    /\ failures' = failures + 1
    /\ UNCHANGED << ws, forward, crashed >>
    /\ UNCHANGED vars

\* The i-th armed setTimeout fires: connect().
OnReconnectTimeout(i) ==
    /\ ~crashed
    /\ i \in DOMAIN timeouts
    /\ timeouts' = [k \in 1..(Len(timeouts) - 1) |->
                        IF k < i THEN timeouts[k] ELSE timeouts[k + 1]]
    /\ sockets' = Append(sockets, "CONNECTING")
    /\ ws' = Len(sockets) + 1
    /\ cOut' = Log("log", "Connecting to relay")
    /\ UNCHANGED << reconnectAttempts, forward, crashed, failures >>
    /\ UNCHANGED vars

ClientNext ==
    \/ \E s \in 1..MaxConnects : ClientOnOpen(s)
    \/ \E s \in 1..MaxConnects : \E msg \in ClientMessagePool :
          ClientOnMessage(s, msg)
    \/ \E id \in ClientRequestIds : \E ok \in BOOLEAN : ForwardSettled(id, ok)
    \/ \E s \in 1..MaxConnects : ClientOnError(s)
    \/ \E s \in 1..MaxConnects : ClientOnClose(s)
    \/ \E i \in 1..MaxConnects : OnReconnectTimeout(i)

ClientSpec == Init /\ [][ClientNext]_<< vars, cvars >>

\* Node fires every armed timer: a scheduled connect() is never starved.
ClientFairSpec ==
    ClientSpec /\ \A i \in 1..MaxConnects : WF_<< vars, cvars >>(OnReconnectTimeout(i))

(***************************************************************************)
(* Properties.                                                             *)
(***************************************************************************)
\* The request whose correlation id is `id`.
Owner(id) == CHOOSE r \in Requests : req[r].requestId = id

Registered(r) ==
    /\ req[r].phase = "forwarded"
    /\ req[r].requestId \in DOMAIN pendingResponses

Sends(o) == { e \in o : e.kind = "send" }

\* C1: the response of a public request is written at most once, whatever
\* the order of a matching response, the deadline and the channel's close:
\* writeHead is invoked at most once on every response object.
C1_SinkWrittenAtMostOnce == \A r \in Requests : res[r].calls <= 1

\* A request that timed out, whose channel then closed, and for which a
\* response arrived last and was dropped.
C1_Witness ==
    \E r \in Requests :
        /\ res[r].by = "timeout"
        /\ res[r].calls = 1
        /\ readyState[req[r].ws] = "CLOSED"
        /\ out = Log("warn", req[r].requestId)

\* C2: when a channel closes, every request pending on it is answered 502
\* and removed from the pending table by the close handler itself.
C2_CloseFailsPending ==
    [][ \A ch \in Channels : OnClose(ch) =>
           \A r \in Requests : (Registered(r) /\ req[r].ws = ch) =>
              /\ req[r].requestId \notin DOMAIN pendingResponses'
              /\ res'[r].statusCode = 502 ]_vars

\* C3: the deadline of a pending request writes 504 and removes the entry,
\* and a response with that id arriving later changes neither a response
\* object, nor the pending table, nor the state of a channel.
C3_TimeoutThenLateResponseIgnored ==
    [][ /\ \A r \in Requests : OnTimeout(r) =>
              /\ res'[r].statusCode = 504
              /\ res'[r].finished
              /\ res'[r].calls = 1
              /\ req[r].requestId \notin DOMAIN pendingResponses'
        /\ \A ch \in Channels : \A f \in FramePool :
              ( /\ OnMessage(ch, f)
                /\ IsType(f, "response")
                /\ res[Owner(f.id)].by = "timeout" ) =>
              UNCHANGED << res, pendingResponses, timers, readyState >> ]_vars

\* A request answered 504 by its deadline, and then a response with its id.
C3_Witness ==
    \E r \in Requests :
        /\ res[r].by = "timeout"
        /\ res[r].statusCode = 504
        /\ req[r].requestId \notin DOMAIN pendingResponses
        /\ out = Log("warn", req[r].requestId)

\* C4: a response message for a pending correlation id is written to the
\* caller of that id and to no one else, with the message's status, headers
\* and body (a status outside 100..999 cannot be written at all).
C4_ResponseDeliveredToItsCaller ==
    [][ \A ch \in Channels : \A f \in FramePool :
           ( /\ OnMessage(ch, f)
             /\ IsType(f, "response")
             /\ f.id \in DOMAIN pendingResponses ) =>
           /\ ValidStatus(f.status) =>
                 /\ res'[Owner(f.id)].by = "response"
                 /\ res'[Owner(f.id)].statusCode = f.status
                 /\ res'[Owner(f.id)].headers = f.headers
                 /\ res'[Owner(f.id)].body = f.body
                 /\ res'[Owner(f.id)].calls = 1
           /\ \A r \in Requests \ {Owner(f.id)} : res'[r] = res[r] ]_vars

\* Two requests outstanding on one tunnel, the later one answered first.
C4_Witness ==
    \E r1, r2 \in Requests :
        /\ r1 < r2
        /\ req[r1].ws = req[r2].ws
        /\ Registered(r1)
        /\ req[r2].phase = "forwarded"
        /\ res[r2].by = "response"

\* C5: every request registered in the pending table is eventually answered
\* and its entry removed.
C5_EveryPendingAnswered ==
    \A r \in Requests :
        Registered(r) ~>
            (res[r].finished /\ req[r].requestId \notin DOMAIN pendingResponses)

\* C6: the identifier an init registers is not, at that moment, the
\* identifier of a tunnel registered by another channel, and the init leaves
\* the registry entries of the other channels as they were.
C6_FreshIdentifier ==
    [][ \A ch \in Channels : \A f \in FramePool :
           (OnMessage(ch, f) /\ IsType(f, "init")) =>
              \A sub \in DOMAIN tunnels :
                 tunnels[sub].ws # ch =>
                    /\ subdomain'[ch] # sub
                    /\ tunnels'[sub] = tunnels[sub] ]_vars

\* C7: the registry holds no entry of a closed channel.
C7_NoEntryOfClosedChannel ==
    \A sub \in DOMAIN tunnels : readyState[tunnels[sub].ws] # "CLOSED"

\* A request the relay cannot forward, and the status that names the reason.
NotForwardable(host) ==
    \/ HostLabel(host) \notin DOMAIN tunnels
    \/ readyState[tunnels[HostLabel(host)].ws] # "OPEN"

RefusedStatus(host) ==
    IF HostLabel(host) \notin DOMAIN tunnels THEN 404 ELSE 503

\* C8 as stated: a request for an unregistered identifier is answered 404
\* and one for a registered tunnel whose channel is not open 503, with
\* nothing sent and the tables unchanged.
C8_Original ==
    [][ \A r \in Requests : \A host \in HostPool : \A url \in UrlPool :
           (OnHttpRequest(r, host, url) /\ NotForwardable(host)) =>
              /\ res'[r].statusCode = RefusedStatus(host)
              /\ Sends(out') = {}
              /\ UNCHANGED << pendingResponses, tunnels >> ]_vars

\* C8 amended: the same for every request but the health check /_health,
\* which is answered 200 whatever its Host.
C8_RefusedRequests ==
    [][ \A r \in Requests : \A host \in HostPool : \A url \in UrlPool :
           ( /\ OnHttpRequest(r, host, url)
             /\ NotForwardable(host)
             /\ url # "/_health" ) =>
              /\ res'[r].statusCode = RefusedStatus(host)
              /\ res'[r].finished
              /\ req'[r].phase = "answered"
              /\ Sends(out') = {}
              /\ UNCHANGED << pendingResponses, tunnels, timers >> ]_vars

\* One request answered 404 and another answered 503.
C8_Witness ==
    \E r1, r2 \in Requests :
        /\ res[r1].by = "notfound" /\ res[r1].statusCode = 404
        /\ res[r2].by = "unavailable" /\ res[r2].statusCode = 503

\* C9: a message other than init on a channel that has not completed its
\* handshake closes the channel and has no other effect.
C9_PreHandshakeViolation ==
    [][ \A ch \in Channels : \A f \in FramePool :
           ( /\ OnMessage(ch, f)
             /\ subdomain[ch] = Null
             /\ ~IsType(f, "init") ) =>
              /\ readyState'[ch] \in {"CLOSING", "CLOSED"}
              /\ UNCHANGED << pendingResponses, timers, res, tunnels >> ]_vars

\* The message types the relay's protocol defines for client frames.
KnownTypes == { "init", "response", "pong" }

\* C10: a frame that is not valid JSON of a known message type closes the
\* channel.
C10_MalformedFrameFatal ==
    [][ \A ch \in Channels : \A f \in FramePool :
           ( /\ OnMessage(ch, f)
             /\ (f.json # "object" \/ f.type \notin KnownTypes) ) =>
              readyState'[ch] \in {"CLOSING", "CLOSED"} ]_vars

\* A channel-fatal event on ch: its close, or a frame whose handling throws.
ChannelFatal(ch) ==
    \/ OnClose(ch)
    \/ \E f \in FramePool : OnMessage(ch, f) /\ MessageThrows(f)

\* C14: a channel-fatal event on one channel leaves the registry entries of
\* the other channels and the pending requests forwarded over the other
\* channels as they were, and writes to none of their callers.
C14_FatalStaysOnItsChannel ==
    [][ \A ch \in Channels : ChannelFatal(ch) =>
           /\ \A sub \in DOMAIN tunnels : tunnels[sub].ws # ch =>
                 /\ sub \in DOMAIN tunnels'
                 /\ tunnels'[sub] = tunnels[sub]
           /\ \A r \in Requests : (Registered(r) /\ req[r].ws # ch) =>
                 /\ req[r].requestId \in DOMAIN pendingResponses'
                 /\ r \in timers'
                 /\ res'[r] = res[r] ]_vars

\* C15: once a channel has closed, no keepalive interval started for it is
\* still armed, and no ping is sent on it.
C15_KeepaliveStoppedOnClose ==
    /\ \A h \in intervals : readyState[h[1]] # "CLOSED"
    /\ \A e \in Sends(out) :
          e.message.type = "ping" => readyState[e.ch] # "CLOSED"

\* C16: a response received on one channel never completes a request that
\* was forwarded over another channel.
C16_ResponseOnlyOnItsChannel ==
    [][ \A ch \in Channels : \A f \in FramePool :
           ( /\ OnMessage(ch, f)
             /\ IsType(f, "response")
             /\ f.id \in DOMAIN pendingResponses
             /\ req[Owner(f.id)].ws # ch ) =>
              UNCHANGED << pendingResponses, timers, res >> ]_vars

\* C17: the deadline timer of a request is armed exactly while its entry
\* is in the pending table, and a step that removes an entry disarms the
\* timer of that entry.
C17_TimerArmedIffPending ==
    \A r \in Requests :
        r \in timers <=>
            (req[r].requestId # Null
                /\ req[r].requestId \in DOMAIN pendingResponses)

\* One entry removed by a response and one by its deadline, after the
\* channel they were forwarded over has closed.
C17_Witness ==
    \E r1, r2 \in Requests :
        /\ res[r1].by = "response" /\ r1 \notin timers
        /\ res[r2].by = "timeout" /\ r2 \notin timers
        /\ readyState[req[r1].ws] = "CLOSED"
        /\ readyState[req[r2].ws] = "CLOSED"
        /\ pendingResponses = << >>

\* C18: when the relay sends a request and registers its pending entry, the
\* channel it was forwarded over is open and still registered.
C18_RegisteredOnLiveTunnel ==
    [][ \A r \in Requests : OnRequestEnd(r) =>
           /\ readyState[req[r].ws] = "OPEN"
           /\ \E sub \in DOMAIN tunnels : tunnels[sub].ws = req[r].ws ]_vars

\* The `response` messages with correlation id `id` among the events o.
ResponsesFor(o, id) ==
    { e \in Sends(o) : e.message.type = "response" /\ e.message.id = id }

\* C11: when the local forward of a received request settles, successfully
\* or not, the client sends exactly one `response` message carrying the
\* request's correlation id (the forwarded status on success, 502 on
\* failure), also when the channel closed or was replaced meanwhile.
C11_EveryRequestAnsweredOnce ==
    [][ \A id \in ClientRequestIds : \A ok \in BOOLEAN :
           ForwardSettled(id, ok) =>
               /\ Cardinality(ResponsesFor(cOut', id)) = 1
               /\ \A e \in ResponsesFor(cOut', id) :
                     e.message.status = IF ok THEN 200 ELSE 502 ]_cvars

\* C12: the delay scheduled at the N-th consecutive close with no `ready`
\* received in between is min(BaseDelay * 2^(N-1), MAX_RECONNECT_DELAY), and
\* the close increments the attempt counter by exactly one.
C12_BackoffDelay ==
    [][ \A s \in 1..MaxConnects : ClientOnClose(s) =>
           /\ timeouts'[Len(timeouts')] =
                  Min(BaseDelay * Pow2(failures' - 1), MAX_RECONNECT_DELAY)
           /\ reconnectAttempts' = reconnectAttempts + 1 ]_cvars

\* C13: the attempt counter goes back to zero only in a step that receives
\* `ready`.
C13_ResetOnlyOnReady ==
    [][ (reconnectAttempts # 0 /\ reconnectAttempts' = 0) =>
           \E s \in 1..MaxConnects : ClientOnMessage(s, [type |-> "ready"])
      ]_cvars

\* Sockets that are connecting or open.
LiveSockets == { s \in DOMAIN sockets : sockets[s] \in {"CONNECTING", "OPEN"} }

\* C19: at most one socket is connecting or open, at most one reconnect
\* timer is armed, and never both; every close arms exactly one reconnect
\* timer; and after every close the client calls connect() again.
C19_OneChannelOrOneTimer ==
    /\ [](Cardinality(LiveSockets) + Len(timeouts) <= 1)
    /\ [][ \A s \in 1..MaxConnects : ClientOnClose(s) =>
               Len(timeouts') = Len(timeouts) + 1 ]_cvars
    /\ \A n \in 1..MaxConnects :
           (Len(sockets) = n /\ sockets[n] = "CLOSED")
               ~> (Len(sockets) > n)

\* The third socket has closed and its reconnect is scheduled, two seconds
\* after a close that followed a close without an open in between.
C19_Witness ==
    /\ Len(sockets) = 3
    /\ sockets[3] = "CLOSED"
    /\ timeouts = << 2000 >>
    /\ LiveSockets = {}
====
